---- MODULE Spec2Model ----
(***************************************************************************)
(* A model of exfix.py: the date-candidate extraction and precision        *)
(* ranking engine (DateExtractor), the write-back (set_file_dates) and the *)
(* per-file driver (process_file).                                         *)
(*                                                                         *)
(* Python strings are sequences of one-character strings, so that the      *)
(* regular expressions, strptime, the f-string tags and the substring      *)
(* tests of the scorer work on the text itself.  A datetime is the tuple   *)
(* <<year, month, day, hour, minute, second>>.                             *)
(***************************************************************************)
EXTENDS Integers, Sequences, FiniteSets, TLC

\* ------------------------------------------------------------------------
\* Text primitives
\* ------------------------------------------------------------------------

Digits == <<"0", "1", "2", "3", "4", "5", "6", "7", "8", "9">>

IsDigit(c) == \E i \in 1..10 : Digits[i] = c

DigitVal(c) == (CHOOSE i \in 1..10 : Digits[i] = c) - 1

UpperLetters ==
    <<"A", "B", "C", "D", "E", "F", "G", "H", "I", "J", "K", "L", "M",
      "N", "O", "P", "Q", "R", "S", "T", "U", "V", "W", "X", "Y", "Z">>

LowerLetters ==
    <<"a", "b", "c", "d", "e", "f", "g", "h", "i", "j", "k", "l", "m",
      "n", "o", "p", "q", "r", "s", "t", "u", "v", "w", "x", "y", "z">>

IsAlpha(c) == \E i \in 1..26 : UpperLetters[i] = c \/ LowerLetters[i] = c

\* str.lower() on one character
Lower(c) ==
    IF \E i \in 1..26 : UpperLetters[i] = c
    THEN LowerLetters[CHOOSE i \in 1..26 : UpperLetters[i] = c]
    ELSE c

IsSpace(c) == c = " "

\* Python's  sub in s
Contains(sub, s) ==
    \E i \in 0..(Len(s) - Len(sub)) : \A j \in 1..Len(sub) : s[i + j] = sub[j]

\* str.replace(old, new) for one-character old and new
Replace(s, old, new) == [i \in 1..Len(s) |-> IF s[i] = old THEN new ELSE s[i]]

\* "-".join(parts)
RECURSIVE JoinDash(_)
JoinDash(parts) ==
    IF parts = <<>> THEN <<>>
    ELSE IF Len(parts) = 1 THEN parts[1]
    ELSE parts[1] \o <<"-">> \o JoinDash(Tail(parts))

\* the value of a non-empty run of decimal digits
RECURSIVE DigitsValue(_)
DigitsValue(cs) ==
    IF cs = <<>> THEN 0
    ELSE 10 * DigitsValue(SubSeq(cs, 1, Len(cs) - 1)) + DigitVal(cs[Len(cs)])

\* int(text): ValueError (ok = FALSE) unless text is a non-empty run of
\* digits, optionally surrounded by blanks
StripBlanks(cs) ==
    LET first == IF \E i \in 1..Len(cs) : ~IsSpace(cs[i])
                 THEN CHOOSE i \in 1..Len(cs) :
                        ~IsSpace(cs[i]) /\ \A j \in 1..(i - 1) : IsSpace(cs[j])
                 ELSE Len(cs) + 1
        last  == IF \E i \in 1..Len(cs) : ~IsSpace(cs[i])
                 THEN CHOOSE i \in 1..Len(cs) :
                        ~IsSpace(cs[i]) /\ \A j \in (i + 1)..Len(cs) : IsSpace(cs[j])
                 ELSE 0
    IN  SubSeq(cs, first, last)

int(cs) ==
    LET t == StripBlanks(cs)
    IN  IF t # <<>> /\ \A i \in 1..Len(t) : IsDigit(t[i])
        THEN [ok |-> TRUE, v |-> DigitsValue(t)]
        ELSE [ok |-> FALSE, v |-> 0]

\* n as decimal digits, zero-padded to width w (strftime's %Y, %m, %d, ...)
RECURSIVE Pad(_, _)
Pad(n, w) ==
    IF w <= 1 /\ n < 10 THEN <<Digits[n + 1]>>
    ELSE Pad(n \div 10, w - 1) \o <<Digits[(n % 10) + 1]>>

\* ------------------------------------------------------------------------
\* datetime
\* ------------------------------------------------------------------------

IsLeap(y) == (y % 4 = 0) /\ ((y % 100 # 0) \/ (y % 400 = 0))

DaysInMonth(y, mo) ==
    IF mo = 2 THEN (IF IsLeap(y) THEN 29 ELSE 28)
    ELSE IF mo \in {4, 6, 9, 11} THEN 30
    ELSE 31

ValueError == [ok |-> FALSE, dt |-> <<>>]

\* datetime(year, month, day, hour, minute, second): ValueError when a
\* component is out of range
datetime(y, mo, d, h, mi, s) ==
    IF /\ y \in 1..9999
       /\ mo \in 1..12
       /\ d >= 1 /\ d <= DaysInMonth(y, mo)
       /\ h \in 0..23
       /\ mi \in 0..59
       /\ s \in 0..59
    THEN [ok |-> TRUE, dt |-> <<y, mo, d, h, mi, s>>]
    ELSE ValueError

\* dt1 < dt2 on datetimes
RECURSIVE LexLess(_, _, _)
LexLess(a, b, i) ==
    IF i > Len(a) THEN FALSE
    ELSE IF a[i] # b[i] THEN a[i] < b[i]
    ELSE LexLess(a, b, i + 1)

DtLess(a, b) == LexLess(a, b, 1)

\* strftime_key as it would be with the format "%Y-%m-%d"
strftime_key_date_only(dt) ==
    Pad(dt[1], 4) \o <<"-">> \o Pad(dt[2], 2) \o <<"-">> \o Pad(dt[3], 2)

\* dt.strftime("%Y-%m-%d %H:%M:%S")
strftime_key(dt) ==
    Pad(dt[1], 4) \o <<"-">> \o Pad(dt[2], 2) \o <<"-">> \o Pad(dt[3], 2)
    \o <<" ">> \o Pad(dt[4], 2) \o <<":">> \o Pad(dt[5], 2) \o <<":">>
    \o Pad(dt[6], 2)

\* ------------------------------------------------------------------------
\* Regular expressions (re.finditer with re.IGNORECASE)
\* ------------------------------------------------------------------------
\* A pattern is a sequence of elements.  An element is a character class
\* with a greedy repetition {lo,hi}, captured as a group or not, or one of
\* the two boundary alternations of the bare-year pattern.

\* membership in a character class
InClass(cls, c) ==
    CASE cls = "\\d"      -> IsDigit(c)
      [] cls = "[_\\-/]"  -> c \in {"_", "-", "/"}
      [] cls = "[_\\-\\s]" -> c \in {"_", "-"} \/ IsSpace(c)
      [] cls = "[:\\-]"   -> c \in {":", "-"}
      [] cls = "[A-Za-z]" -> IsAlpha(c)
      [] cls = "[^\\d]"   -> ~IsDigit(c)

G(cls, lo, hi) == [cls |-> cls, lo |-> lo, hi |-> hi, grp |-> TRUE]   \* (cls{lo,hi})
N(cls, lo, hi) == [cls |-> cls, lo |-> lo, hi |-> hi, grp |-> FALSE]  \* cls{lo,hi}
BosOrNonDigit == [cls |-> "(?:^|[^\\d])", lo |-> 0, hi |-> 1, grp |-> FALSE]
NonDigitOrEos == [cls |-> "(?:[^\\d]|$)", lo |-> 0, hi |-> 1, grp |-> FALSE]

\* length of the longest run of class characters at pos, at most hi
Run(cls, s, pos, hi) ==
    CHOOSE n \in 0..hi :
        /\ \A j \in 0..(n - 1) : pos + j <= Len(s) /\ InClass(cls, s[pos + j])
        /\ \/ n = hi
           \/ pos + n > Len(s)
           \/ ~InClass(cls, s[pos + n])

\* the widths an element can take at pos, in the order the backtracking
\* matcher tries them (greedy: longest first; alternation: left first)
Widths(e, s, pos) ==
    IF e.cls = "(?:^|[^\\d])"
    THEN (IF pos = 1 THEN <<0>> ELSE <<>>)
         \o (IF pos <= Len(s) /\ ~IsDigit(s[pos]) THEN <<1>> ELSE <<>>)
    ELSE IF e.cls = "(?:[^\\d]|$)"
    THEN (IF pos <= Len(s) /\ ~IsDigit(s[pos]) THEN <<1>> ELSE <<>>)
         \o (IF pos = Len(s) + 1 THEN <<0>> ELSE <<>>)
    ELSE LET r == Run(e.cls, s, pos, e.hi)
         IN  IF r < e.lo THEN <<>> ELSE [i \in 1..(r - e.lo + 1) |-> r - i + 1]

NoMatch == [ok |-> FALSE, end |-> 0, groups |-> <<>>]

\* match pat[k..] at pos: the first success in backtracking order, with the
\* text of the groups and the position after the match
RECURSIVE MatchFrom(_, _, _, _)
RECURSIVE TryWidths(_, _, _, _, _)
MatchFrom(pat, s, k, pos) ==
    IF k > Len(pat) THEN [ok |-> TRUE, end |-> pos, groups |-> <<>>]
    ELSE TryWidths(pat, s, k, pos, Widths(pat[k], s, pos))

TryWidths(pat, s, k, pos, ws) ==
    IF ws = <<>> THEN NoMatch
    ELSE LET r == MatchFrom(pat, s, k + 1, pos + Head(ws))
         IN  IF r.ok
             THEN [ok |-> TRUE, end |-> r.end,
                   groups |-> IF pat[k].grp
                              THEN <<SubSeq(s, pos, pos + Head(ws) - 1)>> \o r.groups
                              ELSE r.groups]
             ELSE TryWidths(pat, s, k, pos, Tail(ws))

\* re.finditer(pattern, s): the groups of every non-overlapping match,
\* leftmost first
RECURSIVE FindIterFrom(_, _, _)
FindIterFrom(pat, s, pos) ==
    IF pos > Len(s) THEN <<>>
    ELSE LET r == MatchFrom(pat, s, 1, pos)
         IN  IF r.ok
             THEN <<r.groups>> \o FindIterFrom(pat, s, IF r.end = pos THEN pos + 1 ELSE r.end)
             ELSE FindIterFrom(pat, s, pos + 1)

finditer(pat, s) == FindIterFrom(pat, s, 1)

\* ------------------------------------------------------------------------
\* datetime.strptime
\* ------------------------------------------------------------------------

MonthAbbr ==
    << <<"j", "a", "n">>, <<"f", "e", "b">>, <<"m", "a", "r">>, <<"a", "p", "r">>,
       <<"m", "a", "y">>, <<"j", "u", "n">>, <<"j", "u", "l">>, <<"a", "u", "g">>,
       <<"s", "e", "p">>, <<"o", "c", "t">>, <<"n", "o", "v">>, <<"d", "e", "c">> >>

LowerSeq(s) == [i \in 1..Len(s) |-> Lower(s[i])]

Has(s, pos, n) == pos + n - 1 <= Len(s)

Dig(s, pos) == pos <= Len(s) /\ IsDigit(s[pos])

\* two characters at pos read as a number in lo..hi
TwoDigitsIn(s, pos, lo, hi) ==
    /\ Dig(s, pos) /\ Dig(s, pos + 1)
    /\ 10 * DigitVal(s[pos]) + DigitVal(s[pos + 1]) \in lo..hi

\* the number of blanks at pos
SpaceRun(s, pos) ==
    CHOOSE n \in 0..Len(s) :
        /\ \A j \in 0..(n - 1) : pos + j <= Len(s) /\ IsSpace(s[pos + j])
        /\ (pos + n > Len(s) \/ ~IsSpace(s[pos + n]))

\* the widths a directive can take at pos, in the order of the alternatives
\* of its regular expression in _strptime.TimeRE
DirectiveWidths(dv, s, pos) ==
    CASE dv = "Y" -> IF \A j \in 0..3 : Dig(s, pos + j) THEN <<4>> ELSE <<>>
      [] dv = "y" -> IF Dig(s, pos) /\ Dig(s, pos + 1) THEN <<2>> ELSE <<>>
      [] dv = "m" -> (IF TwoDigitsIn(s, pos, 10, 12) \/ TwoDigitsIn(s, pos, 1, 9)
                      THEN <<2>> ELSE <<>>)
                     \o (IF Dig(s, pos) /\ s[pos] # "0" THEN <<1>> ELSE <<>>)
      [] dv = "d" -> (IF TwoDigitsIn(s, pos, 1, 31) THEN <<2>> ELSE <<>>)
                     \o (IF Dig(s, pos) /\ s[pos] # "0" THEN <<1>> ELSE <<>>)
                     \o (IF Has(s, pos, 2) /\ s[pos] = " " /\ Dig(s, pos + 1)
                            /\ s[pos + 1] # "0"
                         THEN <<2>> ELSE <<>>)
      [] dv = "H" -> (IF TwoDigitsIn(s, pos, 0, 23) THEN <<2>> ELSE <<>>)
                     \o (IF Dig(s, pos) THEN <<1>> ELSE <<>>)
      [] dv = "M" -> (IF TwoDigitsIn(s, pos, 0, 59) THEN <<2>> ELSE <<>>)
                     \o (IF Dig(s, pos) THEN <<1>> ELSE <<>>)
      [] dv = "S" -> (IF TwoDigitsIn(s, pos, 0, 61) THEN <<2>> ELSE <<>>)
                     \o (IF Dig(s, pos) THEN <<1>> ELSE <<>>)
      [] dv = "b" -> IF Has(s, pos, 3)
                        /\ \E i \in 1..12 : MonthAbbr[i] = LowerSeq(SubSeq(s, pos, pos + 2))
                     THEN <<3>> ELSE <<>>

\* the fields found so far, with strptime's defaults
NoFields == [Y |-> 1900, m |-> 1, d |-> 1, H |-> 0, M |-> 0, S |-> 0]

SetField(f, dv, text) ==
    CASE dv = "Y" -> [f EXCEPT !.Y = int(text).v]
      [] dv = "y" -> [f EXCEPT !.Y = IF int(text).v <= 68 THEN 2000 + int(text).v
                                     ELSE 1900 + int(text).v]
      [] dv = "m" -> [f EXCEPT !.m = int(text).v]
      [] dv = "d" -> [f EXCEPT !.d = int(text).v]
      [] dv = "H" -> [f EXCEPT !.H = int(text).v]
      [] dv = "M" -> [f EXCEPT !.M = int(text).v]
      [] dv = "S" -> [f EXCEPT !.S = int(text).v]
      [] dv = "b" -> [f EXCEPT !.m = CHOOSE i \in 1..12 : MonthAbbr[i] = LowerSeq(text)]

NoParse == [ok |-> FALSE, end |-> 0, f |-> NoFields]

\* match fmt[k..] at pos of s (re.match of the compiled format): a blank in
\* the format is \s+, any other literal matches itself
RECURSIVE ParseFrom(_, _, _, _, _)
RECURSIVE TryParse(_, _, _, _, _, _, _)
ParseFrom(fmt, s, k, pos, f) ==
    IF k > Len(fmt) THEN [ok |-> TRUE, end |-> pos, f |-> f]
    ELSE IF fmt[k] = "%"
    THEN TryParse(fmt, s, k + 2, pos, f, fmt[k + 1], DirectiveWidths(fmt[k + 1], s, pos))
    ELSE IF IsSpace(fmt[k])
    THEN LET r == SpaceRun(s, pos)
         IN  TryParse(fmt, s, k + 1, pos, f, " ", [i \in 1..r |-> r - i + 1])
    ELSE IF pos <= Len(s) /\ Lower(s[pos]) = Lower(fmt[k])
    THEN ParseFrom(fmt, s, k + 1, pos + 1, f)
    ELSE NoParse

TryParse(fmt, s, k, pos, f, dv, ws) ==
    IF ws = <<>> THEN NoParse
    ELSE LET f2 == IF dv = " " THEN f
                   ELSE SetField(f, dv, SubSeq(s, pos, pos + Head(ws) - 1))
             r  == ParseFrom(fmt, s, k, pos + Head(ws), f2)
         IN  IF r.ok THEN r ELSE TryParse(fmt, s, k, pos, f, dv, Tail(ws))

\* datetime.strptime(s, fmt): ValueError when the format does not match,
\* when text remains after the match, or when the date does not exist
ParsedDatetime(r, s) ==
    IF ~r.ok \/ r.end # Len(s) + 1 THEN ValueError
    ELSE datetime(r.f.Y, r.f.m, r.f.d, r.f.H, r.f.M, r.f.S)

strptime(s, fmt) == ParsedDatetime(ParseFrom(fmt, s, 1, 1, NoFields), s)

\* ------------------------------------------------------------------------
\* String literals of exfix.py
\* ------------------------------------------------------------------------

\* "%Y-%m-%d-%H-%M-%S"
FmtYmdHMS == <<"%", "Y", "-", "%", "m", "-", "%", "d", "-", "%", "H", "-", "%", "M", "-", "%", "S">>

\* "%Y-%m-%d-%H-%M"
FmtYmdHM == <<"%", "Y", "-", "%", "m", "-", "%", "d", "-", "%", "H", "-", "%", "M">>

\* "%Y-%m-%d"
FmtYmd == <<"%", "Y", "-", "%", "m", "-", "%", "d">>

\* "%d-%m-%Y"
FmtdmY == <<"%", "d", "-", "%", "m", "-", "%", "Y">>

\* "%m-%d-%Y"
FmtmdY == <<"%", "m", "-", "%", "d", "-", "%", "Y">>

\* "%Y%m%d"
FmtYmdCompact == <<"%", "Y", "%", "m", "%", "d">>

\* "%d-%m-%y"
Fmtdmy == <<"%", "d", "-", "%", "m", "-", "%", "y">>

\* "%y-%m-%d"
Fmtymd == <<"%", "y", "-", "%", "m", "-", "%", "d">>

\* "%d%b%y"
Fmtdby == <<"%", "d", "%", "b", "%", "y">>

\* "%b-%d-%y"
Fmtbdy == <<"%", "b", "-", "%", "d", "-", "%", "y">>

\* "%y-%b-%d"
Fmtybd == <<"%", "y", "-", "%", "b", "-", "%", "d">>

\* "%Y-%m"
FmtYm == <<"%", "Y", "-", "%", "m">>

\* "%Y%m"
FmtYmCompact == <<"%", "Y", "%", "m">>

\* "%Y"
FmtY == <<"%", "Y">>

\* "%Y:%m:%d %H:%M:%S"
FmtExif == <<"%", "Y", ":", "%", "m", ":", "%", "d", " ", "%", "H", ":", "%", "M", ":", "%", "S">>

\* "%Y:%m:%d"
FmtYmdColon == <<"%", "Y", ":", "%", "m", ":", "%", "d">>

\* "%Y-%m-%d %H:%M:%S"
FmtYmdSpaceHMS ==
    <<"%", "Y", "-", "%", "m", "-", "%", "d", " ", "%", "H", ":", "%", "M", ":",
      "%", "S">>

\* "DateTimeOriginal"
DateTimeOriginal ==
    <<"D", "a", "t", "e", "T", "i", "m", "e", "O", "r", "i", "g", "i", "n", "a",
      "l">>

\* "CreateDate"
CreateDate == <<"C", "r", "e", "a", "t", "e", "D", "a", "t", "e">>

\* "DateTime"
DateTime == <<"D", "a", "t", "e", "T", "i", "m", "e">>

\* "DateTimeDigitized"
DateTimeDigitized ==
    <<"D", "a", "t", "e", "T", "i", "m", "e", "D", "i", "g", "i", "t", "i", "z",
      "e", "d">>

\* "ModifyDate"
ModifyDate == <<"M", "o", "d", "i", "f", "y", "D", "a", "t", "e">>

\* "FileModifyDate"
FileModifyDate == <<"F", "i", "l", "e", "M", "o", "d", "i", "f", "y", "D", "a", "t", "e">>

\* "EXIF:"
PrefixEXIF == <<"E", "X", "I", "F", ":">>

\* "filename:"
PrefixFilename == <<"f", "i", "l", "e", "n", "a", "m", "e", ":">>

\* "path:"
PrefixPath == <<"p", "a", "t", "h", ":">>

\* "YYYY-MM-DD HH:MM:SS"
ShapeFullDatetime ==
    <<"Y", "Y", "Y", "Y", "-", "M", "M", "-", "D", "D", " ", "H", "H", ":", "M",
      "M", ":", "S", "S">>

\* "YYYY-MM-DD HH:MM"
ShapeDatetimeNoSeconds ==
    <<"Y", "Y", "Y", "Y", "-", "M", "M", "-", "D", "D", " ", "H", "H", ":", "M",
      "M">>

\* "DD-MMM-YY"
ShapeDDMMMYY == <<"D", "D", "-", "M", "M", "M", "-", "Y", "Y">>

\* "YYYY-MM (set to 1st of month)"
ShapeYearMonth ==
    <<"Y", "Y", "Y", "Y", "-", "M", "M", " ", "(", "s", "e", "t", " ", "t", "o",
      " ", "1", "s", "t", " ", "o", "f", " ", "m", "o", "n", "t", "h", ")">>

\* "YYYYMM (set to 1st of month)"
ShapeYearMonthCompact ==
    <<"Y", "Y", "Y", "Y", "M", "M", " ", "(", "s", "e", "t", " ", "t", "o", " ",
      "1", "s", "t", " ", "o", "f", " ", "m", "o", "n", "t", "h", ")">>

\* "YYYY (set to Jan 1st)"
ShapeYearOnly ==
    <<"Y", "Y", "Y", "Y", " ", "(", "s", "e", "t", " ", "t", "o", " ", "J", "a",
      "n", " ", "1", "s", "t", ")">>

\* "DD-MM-YYYY"
ShapeDDMMYYYY == <<"D", "D", "-", "M", "M", "-", "Y", "Y", "Y", "Y">>

\* "MM-DD-YYYY"
ShapeMMDDYYYY == <<"M", "M", "-", "D", "D", "-", "Y", "Y", "Y", "Y">>

\* "HH:MM:SS"
NeedleHHMMSS == <<"H", "H", ":", "M", "M", ":", "S", "S">>

\* "HH:MM"
NeedleHHMM == <<"H", "H", ":", "M", "M">>

\* "YYYY-MM-DD"
NeedleYYYYMMDD == <<"Y", "Y", "Y", "Y", "-", "M", "M", "-", "D", "D">>

\* "YYYY-MM"
NeedleYYYYMM == <<"Y", "Y", "Y", "Y", "-", "M", "M">>

\* "YYYY"
NeedleYYYY == <<"Y", "Y", "Y", "Y">>

\* "Jan 1st"
NeedleJan1st == <<"J", "a", "n", " ", "1", "s", "t">>

\* ------------------------------------------------------------------------
\* DateExtractor
\* ------------------------------------------------------------------------

\* self.date_patterns: <<pattern, date_format>>, in the order of the list
date_patterns ==
    << << <<G("\\d", 4, 4), N("[_\\-/]", 1, 1), G("\\d", 1, 2), N("[_\\-/]", 1, 1),
            G("\\d", 1, 2), N("[_\\-\\s]", 1, 1), G("\\d", 1, 2), N("[:\\-]", 1, 1),
            G("\\d", 1, 2), N("[:\\-]", 1, 1), G("\\d", 1, 2)>>, FmtYmdHMS >>,
       << <<G("\\d", 4, 4), N("[_\\-/]", 1, 1), G("\\d", 1, 2), N("[_\\-/]", 1, 1),
            G("\\d", 1, 2), N("[_\\-\\s]", 1, 1), G("\\d", 1, 2), N("[:\\-]", 1, 1),
            G("\\d", 1, 2)>>, FmtYmdHM >>,
       << <<G("\\d", 4, 4), N("[_\\-/]", 1, 1), G("\\d", 1, 2), N("[_\\-/]", 1, 1),
            G("\\d", 1, 2)>>, FmtYmd >>,
       << <<G("\\d", 1, 2), N("[_\\-/]", 1, 1), G("\\d", 1, 2), N("[_\\-/]", 1, 1),
            G("\\d", 4, 4)>>, FmtdmY >>,
       << <<G("\\d", 1, 2), N("[_\\-/]", 1, 1), G("\\d", 1, 2), N("[_\\-/]", 1, 1),
            G("\\d", 4, 4)>>, FmtmdY >>,
       << <<G("\\d", 4, 4), G("\\d", 2, 2), G("\\d", 2, 2)>>, FmtYmdCompact >>,
       << <<G("\\d", 1, 2), N("[_\\-/]", 1, 1), G("\\d", 1, 2), N("[_\\-/]", 1, 1),
            G("\\d", 2, 2)>>, Fmtdmy >>,
       << <<G("\\d", 2, 2), N("[_\\-/]", 1, 1), G("\\d", 1, 2), N("[_\\-/]", 1, 1),
            G("\\d", 1, 2)>>, Fmtymd >>,
       << <<G("\\d", 1, 2), G("[A-Za-z]", 3, 3), G("\\d", 2, 4)>>, Fmtdby >>,
       << <<G("[A-Za-z]", 3, 3), N("[_\\-\\s]", 1, 1), G("\\d", 1, 2),
            N("[_\\-\\s]", 1, 1), G("\\d", 2, 4)>>, Fmtbdy >>,
       << <<G("\\d", 2, 4), N("[_\\-\\s]", 1, 1), G("[A-Za-z]", 3, 3),
            N("[_\\-\\s]", 1, 1), G("\\d", 1, 2)>>, Fmtybd >>,
       << <<G("\\d", 4, 4), N("[_\\-/]", 1, 1), G("\\d", 1, 2)>>, FmtYm >>,
       << <<G("\\d", 4, 4), G("\\d", 2, 2)>>, FmtYmCompact >>,
       << <<BosOrNonDigit, G("\\d", 4, 4), NonDigitOrEos>>, FmtY >> >>

\* self.exif_date_fields, in order of preference
exif_date_fields ==
    <<DateTimeOriginal, CreateDate, DateTime, DateTimeDigitized, ModifyDate,
      FileModifyDate>>

\* the placeholder dates of is_valid_date, as <<year, month, day>>
invalid_dates ==
    << <<1010, 1, 1>>, <<1980, 1, 1>>, <<1999, 1, 1>>, <<2000, 1, 1>>, <<1970, 1, 1>> >>

\* is_valid_date(dt), with datetime.now().year = current_year
is_valid_date(dt, current_year) ==
    IF dt[1] < 1970 \/ dt[1] > current_year + 1 THEN FALSE
    ELSE IF \E i \in 1..Len(invalid_dates) :
               /\ dt[1] = invalid_dates[i][1]
               /\ dt[2] = invalid_dates[i][2]
               /\ dt[3] = invalid_dates[i][3]
    THEN FALSE
    ELSE TRUE

RECURSIVE Flatten(_)
Flatten(ss) == IF ss = <<>> THEN <<>> ELSE Head(ss) \o Flatten(Tail(ss))

\* dates.append((dt, source)) when the construction of dt did not raise
Append1(r, source) ==
    IF r.ok THEN <<[dt |-> r.dt, src |-> source]>> ELSE <<>>

\* if self.is_valid_date(dt): dates.append((dt, source))
Append1IfValid(r, source, current_year) ==
    IF r.ok /\ is_valid_date(r.dt, current_year)
    THEN <<[dt |-> r.dt, src |-> source]>>
    ELSE <<>>

\* pathlib: Path(p).parts
RECURSIVE SplitSlash(_, _)
SplitSlash(p, cur) ==
    IF p = <<>> THEN (IF cur = <<>> \/ cur = <<".">> THEN <<>> ELSE <<cur>>)
    ELSE IF Head(p) = "/"
    THEN (IF cur = <<>> \/ cur = <<".">> THEN <<>> ELSE <<cur>>) \o SplitSlash(Tail(p), <<>>)
    ELSE SplitSlash(Tail(p), Append(cur, Head(p)))

PathParts(p) ==
    (IF p # <<>> /\ p[1] = "/" THEN << <<"/">> >> ELSE <<>>) \o SplitSlash(p, <<>>)

\* pathlib: Path(p).stem, the final component without its last suffix
PathStem(p) ==
    LET comps == SplitSlash(p, <<>>)
        name  == IF comps = <<>> THEN <<>> ELSE comps[Len(comps)]
        dots  == {i \in 1..Len(name) : name[i] = "."}
        i     == IF dots = {} THEN 0 ELSE CHOOSE k \in dots : \A l \in dots : l <= k
    IN  IF 1 < i /\ i < Len(name) THEN SubSeq(name, 1, i - 1) ELSE name

\* extract_exif_dates as it would be if a field that does not parse ended the
\* scan of the fields after it
extract_exif_dates_aborting(exif, current_year) ==
    IF ~exif.ok THEN <<>>
    ELSE LET bad  == {i \in 1..Len(exif_date_fields) :
                        /\ exif_date_fields[i] \in DOMAIN exif.data
                        /\ exif.data[exif_date_fields[i]] # <<>>
                        /\ ~strptime(exif.data[exif_date_fields[i]], FmtExif).ok}
             stop == IF bad = {} THEN Len(exif_date_fields) + 1
                     ELSE CHOOSE i \in bad : \A j \in bad : i <= j
         IN  Flatten([i \in 1..(stop - 1) |->
                IF exif_date_fields[i] \in DOMAIN exif.data
                   /\ exif.data[exif_date_fields[i]] # <<>>
                THEN Append1IfValid(strptime(exif.data[exif_date_fields[i]], FmtExif),
                                    PrefixEXIF \o exif_date_fields[i], current_year)
                ELSE <<>>])

\* extract_exif_dates: exif is what exiftool's JSON output holds for the file,
\* [ok |-> FALSE] when exiftool fails or its output is not JSON
extract_exif_dates(exif, current_year) ==
    IF ~exif.ok THEN <<>>
    ELSE Flatten([i \in 1..Len(exif_date_fields) |->
            LET field == exif_date_fields[i]
            IN  IF field \in DOMAIN exif.data /\ exif.data[field] # <<>>
                THEN Append1IfValid(strptime(exif.data[field], FmtExif),
                                    PrefixEXIF \o field, current_year)
                ELSE <<>>])

\* the candidates extract_filename_dates appends for one match of a pattern
\* (the body of its inner loop), parts = match.groups()
filename_match_dates(date_format, parts, current_year) ==
    IF date_format = FmtYmdHMS
    THEN Append1IfValid(datetime(int(parts[1]).v, int(parts[2]).v, int(parts[3]).v,
                                 int(parts[4]).v, int(parts[5]).v, int(parts[6]).v),
                        PrefixFilename \o ShapeFullDatetime, current_year)
    ELSE IF date_format = FmtYmdHM
    THEN Append1IfValid(datetime(int(parts[1]).v, int(parts[2]).v, int(parts[3]).v,
                                 int(parts[4]).v, int(parts[5]).v, 0),
                        PrefixFilename \o ShapeDatetimeNoSeconds, current_year)
    ELSE IF date_format = Fmtdby
    THEN Append1IfValid(strptime(parts[1] \o parts[2] \o parts[3], date_format),
                        PrefixFilename \o ShapeDDMMMYY, current_year)
    ELSE IF date_format \in {Fmtbdy, Fmtybd}
    THEN LET month == IF date_format = Fmtbdy THEN parts[1] ELSE parts[2]
             day   == IF date_format = Fmtbdy THEN parts[2] ELSE parts[3]
             year  == IF date_format = Fmtbdy THEN parts[3] ELSE parts[1]
         IN  Append1IfValid(strptime(month \o <<"-">> \o day \o <<"-">> \o year, Fmtbdy),
                            PrefixFilename \o date_format, current_year)
    ELSE IF date_format = FmtYm
    THEN Append1IfValid(datetime(int(parts[1]).v, int(parts[2]).v, 1, 0, 0, 0),
                        PrefixFilename \o ShapeYearMonth, current_year)
    ELSE IF date_format = FmtYmCompact
    THEN LET year_month == parts[1]
             year  == int(SubSeq(year_month, 1, IF Len(year_month) < 4
                                                THEN Len(year_month) ELSE 4))
             month == int(SubSeq(year_month, 5, Len(year_month)))
         IN  IF ~year.ok \/ ~month.ok THEN <<>>
             ELSE Append1IfValid(datetime(year.v, month.v, 1, 0, 0, 0),
                                 PrefixFilename \o ShapeYearMonthCompact, current_year)
    ELSE IF date_format = FmtY
    THEN LET year_int == int(parts[1]).v
         IN  IF 1900 <= year_int /\ year_int <= 2100
             THEN Append1(datetime(year_int, 1, 1, 0, 0, 0), PrefixFilename \o ShapeYearOnly)
             ELSE <<>>
    ELSE IF date_format \in {FmtdmY, FmtmdY}
    THEN LET text == parts[1] \o <<"-">> \o parts[2] \o <<"-">> \o parts[3]
         IN  Append1(strptime(text, FmtdmY), PrefixFilename \o ShapeDDMMYYYY)
             \o Append1(strptime(text, FmtmdY), PrefixFilename \o ShapeMMDDYYYY)
    ELSE LET date_str == IF Len(parts) = 1 THEN parts[1] ELSE JoinDash(parts)
         IN  Append1(strptime(date_str, Replace(Replace(date_format, "_", "-"), "/", "-")),
                     PrefixFilename \o date_format)

\* extract_filename_dates(file_path)
extract_filename_dates(file_path, current_year) ==
    LET filename == PathStem(file_path)
    IN  Flatten([i \in 1..Len(date_patterns) |->
            LET matches == finditer(date_patterns[i][1], filename)
            IN  Flatten([j \in 1..Len(matches) |->
                    filename_match_dates(date_patterns[i][2], matches[j], current_year)])])

\* the candidates extract_path_dates appends for one match of a pattern
path_match_dates(date_format, parts, current_year) ==
    IF date_format = FmtYmdHMS
    THEN Append1IfValid(datetime(int(parts[1]).v, int(parts[2]).v, int(parts[3]).v,
                                 int(parts[4]).v, int(parts[5]).v, int(parts[6]).v),
                        PrefixPath \o ShapeFullDatetime, current_year)
    ELSE IF date_format = FmtYmdHM
    THEN Append1IfValid(datetime(int(parts[1]).v, int(parts[2]).v, int(parts[3]).v,
                                 int(parts[4]).v, int(parts[5]).v, 0),
                        PrefixPath \o ShapeDatetimeNoSeconds, current_year)
    ELSE IF date_format = Fmtdby
    THEN Append1IfValid(strptime(parts[1] \o parts[2] \o parts[3], date_format),
                        PrefixPath \o ShapeDDMMMYY, current_year)
    ELSE IF date_format \in {Fmtbdy, Fmtybd}
    THEN LET month == IF date_format = Fmtbdy THEN parts[1] ELSE parts[2]
             day   == IF date_format = Fmtbdy THEN parts[2] ELSE parts[3]
             year  == IF date_format = Fmtbdy THEN parts[3] ELSE parts[1]
         IN  Append1IfValid(strptime(month \o <<"-">> \o day \o <<"-">> \o year, Fmtbdy),
                            PrefixPath \o date_format, current_year)
    ELSE IF date_format = FmtYm
    THEN Append1IfValid(datetime(int(parts[1]).v, int(parts[2]).v, 1, 0, 0, 0),
                        PrefixPath \o ShapeYearMonth, current_year)
    ELSE IF date_format = FmtYmCompact
    THEN LET year_month == parts[1]
             year  == int(SubSeq(year_month, 1, IF Len(year_month) < 4
                                                THEN Len(year_month) ELSE 4))
             month == int(SubSeq(year_month, 5, Len(year_month)))
         IN  IF ~year.ok \/ ~month.ok THEN <<>>
             ELSE Append1IfValid(datetime(year.v, month.v, 1, 0, 0, 0),
                                 PrefixPath \o ShapeYearMonthCompact, current_year)
    ELSE IF date_format = FmtY
    THEN LET year_int == int(parts[1]).v
         IN  IF 1970 <= year_int /\ year_int <= 2100
             THEN Append1IfValid(datetime(year_int, 1, 1, 0, 0, 0),
                                 PrefixPath \o ShapeYearOnly, current_year)
             ELSE <<>>
    ELSE IF date_format \in {FmtdmY, FmtmdY}
    THEN LET text == parts[1] \o <<"-">> \o parts[2] \o <<"-">> \o parts[3]
         IN  Append1IfValid(strptime(text, FmtdmY), PrefixPath \o ShapeDDMMYYYY, current_year)
             \o Append1IfValid(strptime(text, FmtmdY), PrefixPath \o ShapeMMDDYYYY,
                               current_year)
    ELSE LET date_str == IF Len(parts) = 1 THEN parts[1] ELSE JoinDash(parts)
         IN  Append1IfValid(strptime(date_str,
                                     Replace(Replace(date_format, "_", "-"), "/", "-")),
                            PrefixPath \o date_format, current_year)

\* extract_path_dates(file_path)
extract_path_dates(file_path, current_year) ==
    LET path_parts == PathParts(file_path)
    IN  Flatten([k \in 1..Len(path_parts) |->
            Flatten([i \in 1..Len(date_patterns) |->
                LET matches == finditer(date_patterns[i][1], path_parts[k])
                IN  Flatten([j \in 1..Len(matches) |->
                        path_match_dates(date_patterns[i][2], matches[j], current_year)])])])

\* get_date_precision_score as it would be if the metadata fields were
\* looked for without the "EXIF:" prefix
get_date_precision_score_unprefixed(source) ==
    IF Contains(DateTimeOriginal, source) THEN 100
    ELSE IF Contains(CreateDate, source) THEN 95
    ELSE IF Contains(DateTime, source) THEN 90
    ELSE IF Contains(ModifyDate, source) THEN 80
    ELSE IF Contains(PrefixFilename, source) THEN 50
    ELSE IF Contains(PrefixPath, source) THEN 25
    ELSE 0

\* get_date_precision_score(source)
get_date_precision_score(source) ==
    IF Contains(PrefixEXIF \o DateTimeOriginal, source) THEN 100
    ELSE IF Contains(PrefixEXIF \o CreateDate, source) THEN 95
    ELSE IF Contains(PrefixEXIF \o DateTime, source) THEN 90
    ELSE IF Contains(PrefixEXIF \o DateTimeDigitized, source) THEN 85
    ELSE IF Contains(PrefixEXIF \o ModifyDate, source) THEN 80
    ELSE IF Contains(PrefixEXIF \o FileModifyDate, source) THEN 75
    ELSE IF Contains(PrefixFilename, source)
    THEN IF Contains(NeedleHHMMSS, source) THEN 70
         ELSE IF Contains(NeedleHHMM, source) THEN 65
         ELSE IF \E fmt \in {ShapeDDMMYYYY, ShapeMMDDYYYY, NeedleYYYYMMDD} :
                    Contains(fmt, source)
         THEN 60
         ELSE IF Contains(NeedleYYYYMM, source) THEN 55
         ELSE IF Contains(NeedleYYYY, source) /\ Contains(NeedleJan1st, source) THEN 20
         ELSE 50
    ELSE IF Contains(PrefixPath, source)
    THEN IF Contains(NeedleHHMMSS, source) THEN 45
         ELSE IF Contains(NeedleHHMM, source) THEN 40
         ELSE IF \E fmt \in {ShapeDDMMYYYY, ShapeMMDDYYYY, NeedleYYYYMMDD} :
                    Contains(fmt, source)
         THEN 35
         ELSE IF Contains(NeedleYYYYMM, source) THEN 30
         ELSE IF Contains(NeedleYYYY, source) /\ Contains(NeedleJan1st, source) THEN 10
         ELSE 25
    ELSE 0

\* RemoveDuplicates as it would be if the last candidate of an instant were
\* kept instead of the first
RECURSIVE RemoveDuplicatesLastWins(_, _)
RemoveDuplicatesLastWins(dates, seen_dates) ==
    IF dates = <<>> THEN <<>>
    ELSE IF \E i \in 2..Len(dates) : dates[i].dt = Head(dates).dt
    THEN RemoveDuplicatesLastWins(Tail(dates), seen_dates)
    ELSE <<Head(dates)>> \o RemoveDuplicatesLastWins(Tail(dates), seen_dates)

\* the loop of get_best_date that removes duplicates: a candidate is kept
\* when its date_key has not been seen
RECURSIVE RemoveDuplicates(_, _)
RemoveDuplicates(dates, seen_dates) ==
    IF dates = <<>> THEN <<>>
    ELSE LET date_key == strftime_key(Head(dates).dt)
         IN  IF date_key \notin seen_dates
             THEN <<Head(dates)>> \o RemoveDuplicates(Tail(dates), seen_dates \cup {date_key})
             ELSE RemoveDuplicates(Tail(dates), seen_dates)

\* KeyLess as it would be with the key (score, date)
KeyLessLowestFirst(x, y) ==
    LET sx == get_date_precision_score(x.src)
        sy == get_date_precision_score(y.src)
    IN  (sx < sy) \/ (sx = sy /\ DtLess(x.dt, y.dt))

\* the sort key of get_best_date, (-score, date): x sorts before y
KeyLess(x, y) ==
    LET sx == get_date_precision_score(x.src)
        sy == get_date_precision_score(y.src)
    IN  (-sx < -sy) \/ (sx = sy /\ DtLess(x.dt, y.dt))

\* list.sort(key=...): stable, so an element is placed after every element
\* that does not sort after it
RECURSIVE InsertSorted(_, _)
InsertSorted(sorted, x) ==
    IF sorted = <<>> THEN <<x>>
    ELSE IF KeyLess(x, Head(sorted)) THEN <<x>> \o sorted
    ELSE <<Head(sorted)>> \o InsertSorted(Tail(sorted), x)

RECURSIVE SortByKey(_)
SortByKey(dates) ==
    IF dates = <<>> THEN <<>>
    ELSE InsertSorted(SortByKey(SubSeq(dates, 1, Len(dates) - 1)), dates[Len(dates)])

NoCandidate == [dt |-> <<>>, src |-> <<>>]

NotInvoked ==
    [invoked |-> FALSE, exif_dates |-> <<>>, filename_dates |-> <<>>,
     path_dates |-> <<>>, all_dates |-> <<>>, unique_dates |-> <<>>,
     found |-> FALSE, best |-> NoCandidate]

\* process_file(file_path, manual_date): what it returns, what the engine
\* did if it was called, and what the write-back did if it was called.
\* manual_date = <<>> stands for None and for "", which the code does not
\* tell apart (if manual_date:).

\* get_best_date after the three scanners have returned: all_dates, the
\* listing unique_dates after deduplication and sort, and the pair returned
\* (found = FALSE: (None, None))
BestOf(from_exif, from_filename, from_path, all_dates, unique_dates) ==
    [invoked        |-> TRUE,
     exif_dates     |-> from_exif,
     filename_dates |-> from_filename,
     path_dates     |-> from_path,
     all_dates      |-> all_dates,
     unique_dates   |-> IF all_dates = <<>> THEN <<>> ELSE unique_dates,
     found          |-> all_dates # <<>>,
     best           |-> IF all_dates = <<>> THEN NoCandidate ELSE unique_dates[1]]

Resolve(from_exif, from_filename, from_path) ==
    BestOf(from_exif, from_filename, from_path,
           from_exif \o from_filename \o from_path,
           SortByKey(RemoveDuplicates(from_exif \o from_filename \o from_path, {})))

\* get_best_date(file_path)
get_best_date(file_path, exif, current_year) ==
    Resolve(extract_exif_dates(exif, current_year),
            extract_filename_dates(file_path, current_year),
            extract_path_dates(file_path, current_year))

\* ------------------------------------------------------------------------
\* set_file_dates and process_file
\* ------------------------------------------------------------------------

\* None, where a datetime is expected
None == [ok |-> FALSE, dt |-> <<>>]

\* set_file_dates(file_path, target_date).  exiftool_ok: the exiftool run
\* that sets DateTimeOriginal, CreateDate and DateTime exits with 0;
\* utime_ok: os.utime does not raise OSError.  meta_set and fs_set tell
\* which half of the file has been set to target_date on return.
set_file_dates(target_date, exiftool_ok, utime_ok) ==
    IF ~target_date.ok
    THEN [invoked |-> TRUE, target |-> target_date, meta_set |-> FALSE,
          fs_set |-> FALSE, ret |-> FALSE]
    ELSE IF ~exiftool_ok
    THEN [invoked |-> TRUE, target |-> target_date, meta_set |-> FALSE,
          fs_set |-> FALSE, ret |-> FALSE]
    ELSE IF ~utime_ok
    THEN [invoked |-> TRUE, target |-> target_date, meta_set |-> TRUE,
          fs_set |-> FALSE, ret |-> FALSE]
    ELSE [invoked |-> TRUE, target |-> target_date, meta_set |-> TRUE,
          fs_set |-> TRUE, ret |-> TRUE]

NotWritten ==
    [invoked |-> FALSE, target |-> None, meta_set |-> FALSE, fs_set |-> FALSE,
     ret |-> FALSE]

\* date_formats as it would be with the two ambiguous formats in the other
\* order
date_formats_month_first ==
    <<FmtYmd, FmtYmdColon, FmtmdY, FmtdmY, FmtYmdCompact, FmtYmdSpaceHMS, FmtExif>>

\* date_formats of process_file, in the order of the list
date_formats ==
    <<FmtYmd, FmtYmdColon, FmtdmY, FmtmdY, FmtYmdCompact, FmtYmdSpaceHMS, FmtExif>>

\* the loop of process_file over date_formats: the first parse that does
\* not raise, None when every format raises
RECURSIVE ParseManualFrom(_, _)
ParseManualFrom(manual_date, i) ==
    IF i > Len(date_formats) THEN None
    ELSE LET r == strptime(manual_date, date_formats[i])
         IN  IF r.ok THEN r ELSE ParseManualFrom(manual_date, i + 1)

parse_manual_date(manual_date) == ParseManualFrom(manual_date, 1)

Returned(e, w) == [ret |-> w.ret, engine |-> e, write |-> w]

\* process_file with a manual date, once the date has been parsed
process_manual(target_date, exiftool_ok, utime_ok) ==
    IF ~target_date.ok
    THEN Returned(NotInvoked, NotWritten)
    ELSE Returned(NotInvoked, set_file_dates(target_date, exiftool_ok, utime_ok))

\* process_auto as it would be without the test of target_date
process_auto_unchecked(e, exiftool_ok, utime_ok) ==
    Returned(e, set_file_dates(IF e.found THEN [ok |-> TRUE, dt |-> e.best.dt] ELSE None,
                               exiftool_ok, utime_ok))

\* process_file without a manual date, once get_best_date has returned e
process_auto(e, exiftool_ok, utime_ok) ==
    IF ~e.found
    THEN Returned(e, NotWritten)
    ELSE Returned(e, set_file_dates([ok |-> TRUE, dt |-> e.best.dt], exiftool_ok, utime_ok))

process_file(file_path, manual_date, exists, exif, current_year, exiftool_ok, utime_ok) ==
    IF ~exists
    THEN Returned(NotInvoked, NotWritten)
    ELSE IF manual_date # <<>>
    THEN process_manual(parse_manual_date(manual_date), exiftool_ok, utime_ok)
    ELSE process_auto(get_best_date(file_path, exif, current_year), exiftool_ok, utime_ok)

\* ------------------------------------------------------------------------
\* Inputs
\* ------------------------------------------------------------------------

MaxMonth == 3
MaxDay == 4

Years == {1969, 2000, 2019, 2024, 2029}
Months == (1..MaxMonth) \cup {13}
Days == (1..MaxDay) \cup {13, 31}
CurrentYears == {2026, 2027}

Y4(y) == Pad(y, 4)
D2(n) == Pad(n, 2)

DirPhotos == <<"/", "p", "h", "o", "t", "o", "s">>
ExtJpg == <<".", "j", "p", "g">>
StemBeach == <<"b", "e", "a", "c", "h">>
MonJan == <<"J", "a", "n">>
MonFoo == <<"F", "o", "o">>

StemYMD(y, m, d) == Y4(y) \o <<"-">> \o D2(m) \o <<"-">> \o D2(d)
StemNNY(a, b, y) == D2(a) \o <<"-">> \o D2(b) \o <<"-">> \o Y4(y)
StemCompact8(y, m, d) == Y4(y) \o D2(m) \o D2(d)
StemCompact6(y, m) == Y4(y) \o D2(m)
StemIMG(y, m, d) ==
    <<"I", "M", "G", "_">> \o StemCompact8(y, m, d) \o <<"_", "1", "2", "0", "0", "0", "0">>
StemYMDHMS(y, m, d) ==
    StemYMD(y, m, d) \o <<"_", "1", "0", "-", "2", "0", "-", "3", "0">>
StemYear(y) == <<"V", "a", "c", "a", "t", "i", "o", "n", "_">> \o Y4(y)
StemDMonY(d, mon, yy) == D2(d) \o mon \o D2(yy)

FilePath(dir, stem) == dir \o <<"/">> \o stem \o ExtJpg

FilenameStems ==
    {StemYMD(y, m, d) : y \in Years, m \in Months, d \in Days}
    \cup {StemNNY(a, b, y) : a \in (1..MaxDay) \cup {13}, b \in (1..MaxDay) \cup {13},
                             y \in {1969, 2000, 2024}}
    \cup {StemCompact8(y, m, d) : y \in {2019, 2024}, m \in Months, d \in Days}
    \cup {StemCompact6(y, m) : y \in Years, m \in Months}
    \cup {StemIMG(2019, m, d) : m \in Months \cup {5}, d \in Days}
    \cup {StemYMDHMS(2024, m, d) : m \in Months, d \in Days}
    \cup {StemYear(y) : y \in Years \cup {1950, 2101}}
    \cup {StemDMonY(d, mon, yy) : d \in Days, mon \in {MonJan, MonFoo}, yy \in {23, 99}}
    \cup {StemBeach}

DatedDirs ==
    {<<"/">> \o StemYMD(y, m, d) : y \in {2000, 2020, 2024}, m \in {1, 3}, d \in {1, 4}}
    \cup {<<"/">> \o StemNNY(a, b, y) : a \in {3, 13}, b \in {3, 4}, y \in {1969, 2024}}
    \cup {<<"/">> \o Y4(y) \o <<"-", "S", "u", "m", "m", "e", "r">> : y \in {1969, 2000, 2020}}
    \cup {<<"/">> \o StemCompact8(2024, 3, 4), <<"/">> \o StemCompact6(2024, 3)}

PathStems == {StemBeach, StemYear(2020), StemYMD(2024, 3, 1), StemNNY(4, 3, 2024)}

RawA == <<"2", "0", "1", "9", ":", "0", "5", ":", "0", "2", " ",
          "1", "0", ":", "0", "0", ":", "0", "0">>     \* "2019:05:02 10:00:00"
RawB == <<"2", "0", "1", "9", ":", "0", "5", ":", "0", "1", " ",
          "0", "9", ":", "0", "0", ":", "0", "0">>     \* "2019:05:01 09:00:00"
RawSentinel == <<"2", "0", "0", "0", ":", "0", "1", ":", "0", "1", " ",
                 "1", "2", ":", "0", "0", ":", "0", "0">>  \* "2000:01:01 12:00:00"
RawDateOnly == <<"2", "0", "1", "9", ":", "0", "5", ":", "0", "2">>  \* "2019:05:02"
RawValues == {RawA, RawB, RawSentinel, RawDateOnly}
\* the instant of the file name StemYMDHMS(2024, 3, 1)
RawC == <<"2", "0", "2", "4", ":", "0", "3", ":", "0", "1", " ",
          "1", "0", ":", "2", "0", ":", "3", "0">>     \* "2024:03:01 10:20:30"

ExifFields == {exif_date_fields[i] : i \in 1..Len(exif_date_fields)}

ExifUnavailable == [ok |-> FALSE, data |-> <<>>]

\* what exiftool can report: nothing readable, no field, one field, two fields
ExifInputs ==
    {ExifUnavailable, [ok |-> TRUE, data |-> <<>>]}
    \cup {[ok |-> TRUE, data |-> (f :> v)] : f \in ExifFields, v \in RawValues}
    \cup {[ok |-> TRUE, data |-> (f :> v) @@ (g :> w)] :
            f \in ExifFields, g \in ExifFields, v \in RawValues, w \in RawValues}

\* every tag the three scanners can build, and one that none of them builds
SourceTags ==
    {PrefixEXIF \o f : f \in ExifFields}
    \cup {p \o s : p \in {PrefixFilename, PrefixPath},
                   s \in {ShapeFullDatetime, ShapeDatetimeNoSeconds, ShapeDDMMMYY,
                          ShapeYearMonth, ShapeYearMonthCompact, ShapeYearOnly,
                          ShapeDDMMYYYY, ShapeMMDDYYYY, FmtYmd, FmtYmdCompact,
                          Fmtdmy, Fmtymd, Fmtbdy, Fmtybd}}
    \cup {<<"u", "n", "k", "n", "o", "w", "n">>}

ManualStrings ==
    {StemYMD(2024, m, d) : m \in Months, d \in Days}
    \cup {StemNNY(a, b, 2024) : a \in (1..MaxDay) \cup {13}, b \in (1..MaxDay) \cup {13}}
    \cup {Replace(StemYMD(2024, m, 4), "-", ":") : m \in Months}
    \cup {StemCompact8(2024, m, 4) : m \in Months}
    \cup {StemYMD(2024, 3, 4) \o <<" ", "1", "0", ":", "2", "0", ":", "3", "0">>,
          RawA, RawDateOnly, StemBeach, StemCompact6(2024, 3),
          <<"2", "0", "2", "4", "-", "3", "-", "4">>}

DefaultCall ==
    [op |-> "none", file_path |-> FilePath(DirPhotos, StemBeach), exif |-> ExifUnavailable,
     current_year |-> 2026, exists |-> TRUE, manual_date |-> <<>>, source |-> <<>>,
     target |-> None]

\* the calls a caller can make, with the environment they run in
Calls ==
    {[DefaultCall EXCEPT !.op = "get_best_date", !.file_path = FilePath(DirPhotos, s)] :
        s \in FilenameStems}
    \cup {[DefaultCall EXCEPT !.op = "get_best_date", !.file_path = FilePath(dir, s),
                              !.current_year = cy] :
            dir \in DatedDirs, s \in PathStems, cy \in CurrentYears}
    \cup {[DefaultCall EXCEPT !.op = "get_best_date",
                              !.file_path = FilePath(DirPhotos, StemIMG(2019, 5, 1)),
                              !.exif = x] : x \in ExifInputs}
    \cup {[DefaultCall EXCEPT !.op = "get_best_date", !.file_path = FilePath(dir, s),
                              !.exif = [ok |-> TRUE, data |-> (f :> v)]] :
            dir \in {DirPhotos, <<"/">> \o StemYMD(2024, 3, 1)},
            s \in {StemYMD(2019, 5, 2), StemYMDHMS(2024, 3, 1)}, f \in ExifFields,
            v \in {RawA, RawC}}
    \cup {[DefaultCall EXCEPT !.op = "process_file", !.manual_date = md, !.exists = ex] :
            md \in ManualStrings, ex \in BOOLEAN}
    \cup {[DefaultCall EXCEPT !.op = "process_file", !.file_path = FilePath(DirPhotos, s),
                              !.exif = x, !.exists = ex] :
            s \in {StemBeach, StemIMG(2019, 5, 1), StemYMD(2024, 3, 4), StemYear(2000)},
            x \in {ExifUnavailable, [ok |-> TRUE, data |-> <<>>],
                   [ok |-> TRUE, data |-> (FileModifyDate :> RawA)],
                   [ok |-> TRUE, data |-> (DateTime :> RawDateOnly)],
                   [ok |-> TRUE, data |-> (CreateDate :> RawSentinel)]},
            ex \in BOOLEAN}
    \cup {[DefaultCall EXCEPT !.op = "set_file_dates", !.target = tg] :
            tg \in {None} \cup {datetime(y, 3, 4, h, 0, 0) : y \in Years, h \in {0, 10}}}
    \cup {[DefaultCall EXCEPT !.op = "get_date_precision_score", !.source = src] :
            src \in SourceTags}

\* ------------------------------------------------------------------------
\* The state machine: one call is made and returns
\* ------------------------------------------------------------------------

VARIABLES
    op,            \* the function called
    file_path,     \* its file_path argument
    manual_date,   \* process_file's manual_date (<<>>: None)
    source,        \* get_date_precision_score's source
    target,        \* set_file_dates' target_date
    exists,        \* os.path.exists(file_path)
    exif,          \* what exiftool reports for the file
    current_year,  \* datetime.now().year
    pc,            \* "call" before the call runs, "return" after
    engine,        \* get_best_date: whether it ran, what it collected and returned
    write,         \* set_file_dates: whether it ran and what it set
    ret,           \* the boolean returned by process_file or set_file_dates
    score          \* the score returned by get_date_precision_score

inputs == <<op, file_path, manual_date, source, target, exists, exif, current_year>>
vars == <<op, file_path, manual_date, source, target, exists, exif, current_year,
          pc, engine, write, ret, score>>

Init ==
    /\ \E c \in Calls :
        /\ op = c.op
        /\ file_path = c.file_path
        /\ manual_date = c.manual_date
        /\ source = c.source
        /\ target = c.target
        /\ exists = c.exists
        /\ exif = c.exif
        /\ current_year = c.current_year
    /\ pc = "call"
    /\ engine = NotInvoked
    /\ write = NotWritten
    /\ ret = FALSE
    /\ score = 0

GetDatePrecisionScore ==
    /\ pc = "call" /\ op = "get_date_precision_score"
    /\ score' = get_date_precision_score(source)
    /\ pc' = "return"
    /\ UNCHANGED <<inputs, engine, write, ret>>

GetBestDate ==
    /\ pc = "call" /\ op = "get_best_date"
    /\ engine' = get_best_date(file_path, exif, current_year)
    /\ pc' = "return"
    /\ UNCHANGED <<inputs, write, ret, score>>

SetFileDates ==
    /\ pc = "call" /\ op = "set_file_dates"
    /\ \E exiftool_ok \in BOOLEAN, utime_ok \in BOOLEAN :
        /\ write' = set_file_dates(target, exiftool_ok, utime_ok)
        /\ ret' = write'.ret
    /\ pc' = "return"
    /\ UNCHANGED <<inputs, engine, score>>

ProcessFileReturns(r) ==
    /\ ret' = r.ret
    /\ engine' = r.engine
    /\ write' = r.write

ProcessFile ==
    /\ pc = "call" /\ op = "process_file"
    /\ \E exiftool_ok \in BOOLEAN, utime_ok \in BOOLEAN :
        ProcessFileReturns(process_file(file_path, manual_date, exists, exif,
                                        current_year, exiftool_ok, utime_ok))
    /\ pc' = "return"
    /\ UNCHANGED <<inputs, score>>

Next ==
    \/ GetDatePrecisionScore
    \/ GetBestDate
    \/ SetFileDates
    \/ ProcessFile

Spec == Init /\ [][Next]_vars

\* ------------------------------------------------------------------------
\* Properties
\* ------------------------------------------------------------------------

After(o) == pc = "return" /\ op = o

\* get_best_date has run, called directly or by process_file
EngineRan == pc = "return" /\ engine.invoked

Score(c) == get_date_precision_score(c.src)

\* the priority table of the precision scorer as the design states it
FieldTable ==
    (DateTimeOriginal :> 100) @@ (CreateDate :> 95) @@ (DateTime :> 90)
    @@ (DateTimeDigitized :> 85) @@ (ModifyDate :> 80) @@ (FileModifyDate :> 75)

IsFieldTag(src) == \E f \in ExifFields : src = PrefixEXIF \o f

FieldOf(src) == CHOOSE f \in ExifFields : src = PrefixEXIF \o f

\* the sanity filter as the design states it
Sentinels == {<<1010, 1, 1>>, <<1980, 1, 1>>, <<1999, 1, 1>>, <<2000, 1, 1>>, <<1970, 1, 1>>}

PassesSanity(dt, cy) ==
    /\ dt[1] >= 1970 /\ dt[1] <= cy + 1
    /\ <<dt[1], dt[2], dt[3]>> \notin Sentinels

\* C1: the ranked listing is ordered by (score descending, instant
\* ascending), so that no two entries stand against the order of the
\* priority table, and the best date returned is the head of the listing.
\* The order by the scorer's own scores holds; the table order is checked
\* on the metadata entries, whose table rows are the six fields.
C1_ListingOrderedByTableScore ==
    EngineRan /\ engine.found =>
        LET L == engine.unique_dates
        IN  /\ \A i \in 1..(Len(L) - 1) :
                    \/ Score(L[i]) > Score(L[i + 1])
                    \/ Score(L[i]) = Score(L[i + 1]) /\ DtLess(L[i].dt, L[i + 1].dt)
            /\ \A i \in 1..Len(L) : \A j \in (i + 1)..Len(L) :
                    IsFieldTag(L[i].src) /\ IsFieldTag(L[j].src)
                        => FieldTable[FieldOf(L[i].src)] >= FieldTable[FieldOf(L[j].src)]
            /\ engine.best = L[1]

\* C2: deduplication is first-seen-wins by exact instant: every instant of
\* the listing stands there once, with the provenance of the first collected
\* candidate that carries it, whatever the scores of the later ones.
C2_FirstSeenWins ==
    EngineRan =>
        LET L == engine.unique_dates
            A == engine.all_dates
        IN  \A k \in 1..Len(L) :
                /\ \A l \in 1..Len(L) : L[l].dt = L[k].dt => l = k
                /\ \E i \in 1..Len(A) :
                    /\ A[i] = L[k]
                    /\ \A j \in 1..(i - 1) : A[j].dt # L[k].dt

\* a later candidate of an instant was dropped although it scores higher
\* than the first one, which the listing keeps
C2_Witness ==
    /\ EngineRan
    /\ \E i \in 1..Len(engine.all_dates) : \E j \in (i + 1)..Len(engine.all_dates) :
        /\ engine.all_dates[j].dt = engine.all_dates[i].dt
        /\ \A h \in 1..(i - 1) : engine.all_dates[h].dt # engine.all_dates[i].dt
        /\ Score(engine.all_dates[j]) > Score(engine.all_dates[i])
        /\ \E k \in 1..Len(engine.unique_dates) :
                engine.unique_dates[k] = engine.all_dates[i]

\* C3: the score of a metadata tag is the table value of its field:
\* DateTimeOriginal 100, CreateDate 95, DateTime 90, DateTimeDigitized 85,
\* ModifyDate 80, FileModifyDate 75.
C3_FieldScoreIsTableValue ==
    After("get_date_precision_score") /\ IsFieldTag(source)
        => score = FieldTable[FieldOf(source)]

\* the stem of the file is a full date YYYY-MM-DD
IsFullDateStem(stem) ==
    /\ Len(stem) = 10
    /\ \A i \in {1, 2, 3, 4, 6, 7, 9, 10} : IsDigit(stem[i])
    /\ stem[5] = "-" /\ stem[8] = "-"

FullDateOf(stem) ==
    <<DigitsValue(SubSeq(stem, 1, 4)), DigitsValue(SubSeq(stem, 6, 7)),
      DigitsValue(SubSeq(stem, 9, 10)), 0, 0, 0>>

IsCalendarDate(dt) ==
    /\ dt[1] \in 1..9999
    /\ dt[2] \in 1..12
    /\ dt[3] >= 1 /\ dt[3] <= DaysInMonth(dt[1], dt[2])

\* C4: a file whose stem is a calendar-valid full date YYYY-MM-DD that
\* passes the sanity filter gets exactly one filename candidate, and that
\* candidate carries the date of the stem and scores 60.
C4_FullDateStemOneCandidateScore60 ==
    /\ EngineRan
    /\ IsFullDateStem(PathStem(file_path))
    /\ IsCalendarDate(FullDateOf(PathStem(file_path)))
    /\ PassesSanity(FullDateOf(PathStem(file_path)), current_year)
    => /\ Len(engine.filename_dates) = 1
       /\ engine.filename_dates[1].dt = FullDateOf(PathStem(file_path))
       /\ Score(engine.filename_dates[1]) = 60

\* C5: every candidate of the result set passes the sanity filter: its
\* year is in 1970..current year + 1 and its date is no sentinel date.
C5_ResultSetPassesSanity ==
    EngineRan =>
        \A k \in 1..Len(engine.unique_dates) :
            PassesSanity(engine.unique_dates[k].dt, current_year)

\* the stem of the file is NN-NN-YYYY with both numbers in 1..12 and different
IsAmbiguousStem(stem) ==
    /\ Len(stem) = 10
    /\ \A i \in {1, 2, 4, 5, 7, 8, 9, 10} : IsDigit(stem[i])
    /\ stem[3] = "-" /\ stem[6] = "-"
    /\ DigitsValue(SubSeq(stem, 1, 2)) \in 1..12
    /\ DigitsValue(SubSeq(stem, 4, 5)) \in 1..12
    /\ DigitsValue(SubSeq(stem, 1, 2)) # DigitsValue(SubSeq(stem, 4, 5))

ReadingDMY(stem) ==
    <<DigitsValue(SubSeq(stem, 7, 10)), DigitsValue(SubSeq(stem, 4, 5)),
      DigitsValue(SubSeq(stem, 1, 2)), 0, 0, 0>>

ReadingMDY(stem) ==
    <<DigitsValue(SubSeq(stem, 7, 10)), DigitsValue(SubSeq(stem, 1, 2)),
      DigitsValue(SubSeq(stem, 4, 5)), 0, 0, 0>>

AmbiguousTags == {PrefixFilename \o ShapeDDMMYYYY, PrefixFilename \o ShapeMMDDYYYY}

Earlier(a, b) == IF DtLess(a, b) THEN a ELSE b

\* C6: for an ambiguous NN-NN-YYYY the filename scanner emits exactly two
\* candidates of the ambiguous shapes, the D-M-Y reading and the M-D-Y
\* reading, with the same score; and when no candidate scores higher the
\* winner is the earlier of the two.
C6_AmbiguousDateTwoCandidates ==
    EngineRan /\ IsAmbiguousStem(PathStem(file_path)) =>
        LET stem == PathStem(file_path)
            F    == engine.filename_dates
            amb  == {k \in 1..Len(F) : F[k].src \in AmbiguousTags}
        IN  /\ Cardinality(amb) = 2
            /\ \E k \in amb : F[k] = [dt |-> ReadingDMY(stem),
                                      src |-> PrefixFilename \o ShapeDDMMYYYY]
            /\ \E k \in amb : F[k] = [dt |-> ReadingMDY(stem),
                                      src |-> PrefixFilename \o ShapeMMDDYYYY]
            /\ \A k \in amb : \A l \in amb : Score(F[k]) = Score(F[l])
            /\ (\A c \in 1..Len(engine.unique_dates) : \A k \in amb :
                    Score(engine.unique_dates[c]) <= Score(F[k]))
                => engine.best.dt = Earlier(ReadingDMY(stem), ReadingMDY(stem))

\* C7: a write-back that fails leaves the file with the metadata fields and
\* the filesystem timestamps both set to the target or both not set.
C7_FailedWriteNotPartial ==
    pc = "return" /\ write.invoked /\ ~write.ret => write.meta_set = write.fs_set

\* C8: when the three scanners yield no candidate, get_best_date returns
\* "no date found", and process_file returns failure without calling
\* set_file_dates.
C8_NoCandidateNoWrite ==
    /\ EngineRan
    /\ engine.exif_dates = <<>>
    /\ engine.filename_dates = <<>>
    /\ engine.path_dates = <<>>
    => /\ ~engine.found
       /\ engine.best = NoCandidate
       /\ op = "process_file" => (ret = FALSE /\ ~write.invoked)

\* process_file found no candidate although exiftool reported a field
C8_Witness ==
    /\ After("process_file")
    /\ engine.invoked
    /\ engine.all_dates = <<>>
    /\ exif.ok /\ DOMAIN exif.data # {}

\* the manual formats in the order the design states them
ManualFormatList ==
    <<FmtYmd, FmtYmdColon, FmtdmY, FmtmdY, FmtYmdCompact, FmtYmdSpaceHMS, FmtExif>>

Accepting == {i \in 1..Len(ManualFormatList) : strptime(manual_date, ManualFormatList[i]).ok}

FirstAccepting == CHOOSE i \in Accepting : \A j \in Accepting : i <= j

\* C9: with a manual date on an existing file the ranking engine is not
\* invoked; the target is the parse under the first format of the list
\* that accepts the string; when none accepts it, process_file fails and
\* set_file_dates is not invoked.
C9_ManualDateBypassesEngine ==
    After("process_file") /\ exists /\ manual_date # <<>> =>
        /\ ~engine.invoked
        /\ IF Accepting # {}
           THEN /\ write.invoked
                /\ write.target = strptime(manual_date, ManualFormatList[FirstAccepting])
           ELSE ~write.invoked /\ ret = FALSE

\* a manual date that D-M-Y and M-D-Y both accept, with different results
C9_Witness ==
    /\ After("process_file") /\ exists /\ manual_date # <<>>
    /\ strptime(manual_date, FmtdmY).ok
    /\ strptime(manual_date, FmtmdY).ok
    /\ strptime(manual_date, FmtdmY) # strptime(manual_date, FmtmdY)
    /\ write.invoked

\* the file of the scenario: only FileModifyDate = "2019:05:02 10:00:00",
\* /photos/IMG_20190501_120000.jpg
IsScenarioFileModifyDate ==
    /\ exif.ok
    /\ DOMAIN exif.data = {FileModifyDate}
    /\ exif.data[FileModifyDate] = RawA
    /\ file_path = <<"/", "p", "h", "o", "t", "o", "s", "/", "I", "M", "G", "_",
                     "2", "0", "1", "9", "0", "5", "0", "1", "_",
                     "1", "2", "0", "0", "0", "0", ".", "j", "p", "g">>

\* C10: in that scenario the winner is the metadata FileModifyDate
\* candidate 2019-05-02 10:00:00, with score 75.
C10_FileModifyDateWins ==
    After("get_best_date") /\ IsScenarioFileModifyDate =>
        /\ engine.found
        /\ engine.best = [dt |-> <<2019, 5, 2, 10, 0, 0>>,
                          src |-> PrefixEXIF \o FileModifyDate]
        /\ Score(engine.best) = 75

C10_Witness == After("get_best_date") /\ IsScenarioFileModifyDate /\ engine.found

\* the preference order of the metadata fields as the design states it
FieldPreference ==
    <<DateTimeOriginal, CreateDate, DateTime, DateTimeDigitized, ModifyDate, FileModifyDate>>

\* the metadata candidates the design expects from field i on
RECURSIVE MetadataExpected(_)
MetadataExpected(i) ==
    IF i > Len(FieldPreference) THEN <<>>
    ELSE LET f == FieldPreference[i]
         IN  (IF /\ f \in DOMAIN exif.data
                 /\ strptime(exif.data[f], FmtExif).ok
                 /\ PassesSanity(strptime(exif.data[f], FmtExif).dt, current_year)
              THEN <<[dt |-> strptime(exif.data[f], FmtExif).dt, src |-> PrefixEXIF \o f]>>
              ELSE <<>>)
             \o MetadataExpected(i + 1)

IsCompactDate(text) == Len(text) = 8 /\ \A i \in 1..8 : IsDigit(text[i])

CompactDateOf(text) ==
    <<DigitsValue(SubSeq(text, 1, 4)), DigitsValue(SubSeq(text, 5, 6)),
      DigitsValue(SubSeq(text, 7, 8)), 0, 0, 0>>

\* the text is six digits YYYYMM
IsCompactYearMonth(text) == Len(text) = 6 /\ \A i \in 1..6 : IsDigit(text[i])

CompactYearMonthOf(text) ==
    <<DigitsValue(SubSeq(text, 1, 4)), DigitsValue(SubSeq(text, 5, 6)), 1, 0, 0, 0>>

\* the scanner's list holds a candidate of the date
HasDate(dates, dt) == \E k \in 1..Len(dates) : dates[k].dt = dt

\* the directory names of the path, without the root and the file name
Segments(p) == {PathParts(p)[i] : i \in 2..(Len(PathParts(p)) - 1)}

\* C12: a stem or a path segment that is a compact YYYYMMDD of a
\* calendar-valid, sanity-passing date yields a candidate of that date, and
\* one that is a compact YYYYMM with month 01..12 and a sanity-passing year
\* yields a candidate of the 1st of that month.
C12_CompactShapesProduceCandidates ==
    EngineRan =>
        /\ /\ IsCompactDate(PathStem(file_path))
           /\ IsCalendarDate(CompactDateOf(PathStem(file_path)))
           /\ PassesSanity(CompactDateOf(PathStem(file_path)), current_year)
           => HasDate(engine.filename_dates, CompactDateOf(PathStem(file_path)))
        /\ /\ IsCompactYearMonth(PathStem(file_path))
           /\ IsCalendarDate(CompactYearMonthOf(PathStem(file_path)))
           /\ PassesSanity(CompactYearMonthOf(PathStem(file_path)), current_year)
           => HasDate(engine.filename_dates, CompactYearMonthOf(PathStem(file_path)))
        /\ \A seg \in Segments(file_path) :
            /\ /\ IsCompactDate(seg)
               /\ IsCalendarDate(CompactDateOf(seg))
               /\ PassesSanity(CompactDateOf(seg), current_year)
               => HasDate(engine.path_dates, CompactDateOf(seg))
            /\ /\ IsCompactYearMonth(seg)
               /\ IsCalendarDate(CompactYearMonthOf(seg))
               /\ PassesSanity(CompactYearMonthOf(seg), current_year)
               => HasDate(engine.path_dates, CompactYearMonthOf(seg))

\* C13: whenever the metadata scanner yields a candidate, the best date is
\* a metadata candidate: every metadata score is above every filename and
\* path score, and no metadata candidate is dropped for a filename or path
\* candidate of the same instant.
C13_MetadataCandidateWins ==
    EngineRan /\ engine.exif_dates # <<>> =>
        LET E == engine.exif_dates
            O == engine.filename_dates \o engine.path_dates
            L == engine.unique_dates
        IN  /\ engine.found
            /\ \E m \in 1..Len(E) : engine.best = E[m]
            /\ \A m \in 1..Len(E) : \A c \in 1..Len(O) : Score(E[m]) > Score(O[c])
            /\ \A k \in 1..Len(L) :
                    (\E m \in 1..Len(E) : E[m].dt = L[k].dt)
                        => \E m \in 1..Len(E) : E[m] = L[k]

\* a filename candidate carries the instant of a metadata candidate
C13_Witness ==
    /\ EngineRan
    /\ \E m \in 1..Len(engine.exif_dates) : \E c \in 1..Len(engine.filename_dates) :
            engine.exif_dates[m].dt = engine.filename_dates[c].dt

Instants(dates) == {dates[k].dt : k \in 1..Len(dates)}

\* C14: for a non-empty collection the listing holds no instant twice, its
\* instants are those of the collected candidates, and the pair returned
\* is one of the collected pairs.
C14_ListingKeepsEveryInstantOnce ==
    EngineRan /\ engine.all_dates # <<>> =>
        /\ Cardinality(Instants(engine.unique_dates)) = Len(engine.unique_dates)
        /\ Instants(engine.unique_dates) = Instants(engine.all_dates)
        /\ engine.found
        /\ \E i \in 1..Len(engine.all_dates) : engine.best = engine.all_dates[i]

\* duplicates were dropped and several instants remain, two of the same day
C14_Witness ==
    /\ EngineRan
    /\ Len(engine.unique_dates) < Len(engine.all_dates)
    /\ \E k \in 1..Len(engine.unique_dates) : \E l \in 1..Len(engine.unique_dates) :
        /\ k # l
        /\ SubSeq(engine.unique_dates[k].dt, 1, 3) = SubSeq(engine.unique_dates[l].dt, 1, 3)

====
